---- MODULE Spec2Model ----
(***************************************************************************)
(* A model of src/FileBasedRouter.tsx: the path resolver pathToRoute, the  *)
(* route tree builder routes() and the data-loading bridge                 *)
(* DataLoaderComponent.                                                    *)
(*                                                                         *)
(* JavaScript strings are sequences of one-character strings, so that the  *)
(* replace / split / join / endsWith calls of the source are computed and  *)
(* not assumed.  Route objects live on a heap (a sequence of objects, the  *)
(* identifier of an object is its position), because the builder shares    *)
(* and mutates children arrays through references.                         *)
(***************************************************************************)
EXTENDS Integers, Sequences, FiniteSets, TLC

VARIABLES
  files,      \* the discovery snapshot: the keys of _layouts, _loading, _error, _data
  processed,  \* the keys of _pages the for-loop of routes() has iterated, in order
  heap,       \* the RouteObjects created so far; heap[1] is _routes[0]
  createdBy,  \* history: createdBy[n] is the iteration that created heap[n] (0: root)
  pc,         \* "building" while routes() runs, "built" once it has returned
  filePath,   \* pathToRoute: the argument of the call under observation
  route,      \* pathToRoute: its result, Pending before the call
  inst,       \* the mounts of a leaf element so far, with their hook state
  runs,       \* the calls of loadData so far, each with its position
  code,       \* the lazy page component: "idle", "pending", "ready" or "failed"
  dataModule  \* the promise dataFunctionImportModule: "pending", "resolved", "rejected"

vars == <<files, processed, heap, createdBy, pc, filePath, route,
          inst, runs, code, dataModule>>

buildVars == <<files, processed, heap, createdBy, pc>>
leafVars == <<inst, runs, code, dataModule>>

-----------------------------------------------------------------------------
(* Bounds *)

MaxEntries == 4        \* page files iterated by one run of routes()
MaxCollaborators == 2  \* layout/loading/error/data files in the snapshot
MaxDepth == 2          \* directory segments of a pathToRoute argument
MaxMounts == 2         \* mounts of the leaf element
MaxRenders == 1        \* re-renders of one mounted instance
MaxRefChanges == 1     \* new data references passed to one mounted instance

-----------------------------------------------------------------------------
(* String literals *)

Slash == <<"/">>
DotTsx == <<".", "t", "s", "x">>
DotTs == <<".", "t", "s">>
SlashIndex == <<"/", "i", "n", "d", "e", "x">>
S_index == <<"i", "n", "d", "e", "x">>
S_about == <<"a", "b", "o", "u", "t">>
S_blog == <<"b", "l", "o", "g">>
S_slug == <<"s", "l", "u", "g">>
S_page == <<"p", "a", "g", "e">>
S_x == <<"x">>
S_a == <<"a">>
S_b == <<"b">>
S_id == <<"i", "d">>
S_layout == <<"l", "a", "y", "o", "u", "t">>
S_loading == <<"l", "o", "a", "d", "i", "n", "g">>
S_error == <<"e", "r", "r", "o", "r">>
S_data == <<"d", "a", "t", "a">>

Bracket(s) == <<"[">> \o s \o <<"]">>

BASE_PAGES_PATH == <<"/", "s", "r", "c", "/", "p", "a", "g", "e", "s">>

\* Values that are not strings of the program: no string operation yields them.
Undefined == <<"undefined">>
Null == <<"null">>
Pending == <<"pending">>
GenericLayout == <<"GenericLayout">>
GenericLoading == <<"GenericLoading">>
GenericErrorBoundaryPlaceholder == <<"GenericErrorBoundaryPlaceholder">>

-----------------------------------------------------------------------------
(* String operations of the JavaScript runtime, as the source uses them *)

StartsAt(s, p, i) ==
  /\ i + Len(p) - 1 <= Len(s)
  /\ \A k \in 1..Len(p) : s[i + k - 1] = p[k]

\* s.indexOf(p) + 1: the first position where p occurs, 0 when it does not
IndexOf(s, p) ==
  LET hits == {i \in 1..(Len(s) + 1) : StartsAt(s, p, i)}
  IN IF hits = {} THEN 0 ELSE CHOOSE i \in hits : \A j \in hits : i <= j

\* s.replace(p, r) with a string pattern: the first occurrence only
ReplaceFirst(s, p, r) ==
  LET i == IndexOf(s, p)
  IN IF i = 0 THEN s
     ELSE SubSeq(s, 1, i - 1) \o r \o SubSeq(s, i + Len(p), Len(s))

EndsWith(s, p) ==
  /\ Len(s) >= Len(p)
  /\ SubSeq(s, Len(s) - Len(p) + 1, Len(s)) = p

\* s.replace(/p$/, '') for a literal p
StripSuffix(s, p) ==
  IF EndsWith(s, p) THEN SubSeq(s, 1, Len(s) - Len(p)) ELSE s

\* the first "]" strictly after position i, 0 when there is none
CloseAfter(s, i) ==
  LET hits == {j \in (i + 1)..Len(s) : s[j] = "]"}
  IN IF hits = {} THEN 0 ELSE CHOOSE j \in hits : \A k \in hits : j <= k

\* s.replace(/\[([^\]]+)\]/g, ':$1'), scanning from position i
RECURSIVE ReplaceBracketsFrom(_, _)
ReplaceBracketsFrom(s, i) ==
  IF i > Len(s) THEN <<>>
  ELSE LET j == CloseAfter(s, i)
       IN IF s[i] = "[" /\ j > i + 1
          THEN <<":">> \o SubSeq(s, i + 1, j - 1) \o ReplaceBracketsFrom(s, j + 1)
          ELSE <<s[i]>> \o ReplaceBracketsFrom(s, i + 1)

ReplaceBrackets(s) == ReplaceBracketsFrom(s, 1)

\* s.split('/'): never empty, "" splits into [""]
RECURSIVE Split(_)
Split(s) ==
  LET i == IndexOf(s, Slash)
  IN IF i = 0 THEN <<s>>
     ELSE <<SubSeq(s, 1, i - 1)>> \o Split(SubSeq(s, i + 1, Len(s)))

\* parts.join('/')
RECURSIVE Join(_)
Join(parts) ==
  IF Len(parts) = 0 THEN <<>>
  ELSE IF Len(parts) = 1 THEN parts[1]
  ELSE parts[1] \o Slash \o Join(Tail(parts))

\* parts.slice(0, -1)
SliceButLast(parts) == SubSeq(parts, 1, Len(parts) - 1)

\* parts.pop() on a fresh array: its last element
Last(parts) == parts[Len(parts)]

-----------------------------------------------------------------------------
(* pathToRoute, lines 92-99 *)

\* pathToRoute without the collapse of a trailing /index (line 97 left out)
pathToRouteKeepIndex(p) ==
  LET r1 == ReplaceFirst(p, BASE_PAGES_PATH, <<>>)
      r2 == StripSuffix(r1, DotTsx)
      r3 == ReplaceBrackets(r2)
      r5 == StripSuffix(r3, Slash)
  IN IF r5 = <<>> THEN Slash ELSE r5

pathToRoute(p) ==
  LET r1 == ReplaceFirst(p, BASE_PAGES_PATH, <<>>)
      r2 == StripSuffix(r1, DotTsx)
      r3 == ReplaceBrackets(r2)
      r4 == StripSuffix(r3, SlashIndex)
      r5 == StripSuffix(r4, Slash)
  IN IF r5 = <<>> THEN Slash ELSE r5

-----------------------------------------------------------------------------
(* The discovery snapshot: import.meta.glob, lines 72-90 *)

\* BASE_PAGES_PATH/d1/.../dn/name.ext
FileAt(dirs, name, ext) == BASE_PAGES_PATH \o Slash \o Join(dirs \o <<name \o ext>>)

P_index == FileAt(<<>>, S_index, DotTsx)
P_about == FileAt(<<>>, S_about, DotTsx)
P_blog == FileAt(<<>>, S_blog, DotTsx)
P_blogIndex == FileAt(<<S_blog>>, S_index, DotTsx)
P_blogSlug == FileAt(<<S_blog>>, Bracket(S_slug), DotTsx)
P_blogXPage == FileAt(<<S_blog, S_x>>, S_page, DotTsx)
P_aboutXPage == FileAt(<<S_about, S_x>>, S_page, DotTsx)

\* the page files a snapshot may hold (the keys of _pages)
PageFiles ==
  {P_index, P_about, P_blog, P_blogIndex, P_blogSlug, P_blogXPage, P_aboutXPage}

LayoutFiles == {FileAt(<<S_blog>>, S_layout, DotTsx), FileAt(<<S_blog, S_x>>, S_layout, DotTsx)}
LoadingFiles == {FileAt(<<S_blog>>, S_loading, DotTsx), FileAt(<<S_blog, S_x>>, S_loading, DotTsx)}
ErrorFiles == {FileAt(<<S_blog>>, S_error, DotTsx), FileAt(<<S_blog, S_x>>, S_error, DotTsx)}
DataFiles == {FileAt(<<>>, S_data, DotTs), FileAt(<<S_blog>>, S_data, DotTs)}

Snapshots ==
  {s \in [layouts : SUBSET LayoutFiles, loading : SUBSET LoadingFiles,
          error : SUBSET ErrorFiles, data : SUBSET DataFiles] :
     Cardinality(s.layouts) + Cardinality(s.loading)
       + Cardinality(s.error) + Cardinality(s.data) <= MaxCollaborators}

\* Boolean(map[key])
Has(map, key) == key \in map

\* React.lazy(map[key]): a lazy component is identified by the module it loads
Lazy(key) == key

-----------------------------------------------------------------------------
(* Route objects *)

\* the children field of a route object that has none
NoChildren == <<0>>

RootLayout ==
  IF Has(files.layouts, BASE_PAGES_PATH \o Slash \o S_layout \o DotTsx)
  THEN Lazy(BASE_PAGES_PATH \o Slash \o S_layout \o DotTsx)
  ELSE GenericLayout

hasRootError == Has(files.error, BASE_PAGES_PATH \o Slash \o S_error \o DotTsx)

RootErrorBoundary ==
  IF hasRootError THEN Lazy(BASE_PAGES_PATH \o Slash \o S_error \o DotTsx)
  ELSE GenericErrorBoundaryPlaceholder

\* An element is described by the wrappers it is made of, outermost first:
\*   errorFallback    the fallback of its ErrorBoundary, Null without one
\*   suspenseFallback the fallback of its React.Suspense, Null without one
\*   Layout           the layout rendered around an Outlet, Null for a leaf
\*   bridge           whether the leaf is a DataLoaderComponent
\*   Component        the page component of a leaf, Null for a layout
\*   LoadingComponent, dataFunctionImportModule: the props of the bridge
RootRoute ==
  [path |-> Slash, index |-> FALSE,
   element |-> [errorFallback |-> IF hasRootError THEN RootErrorBoundary ELSE Null,
                suspenseFallback |-> Null, Layout |-> RootLayout, bridge |-> FALSE,
                Component |-> Null, LoadingComponent |-> Null,
                dataFunctionImportModule |-> Null],
   children |-> <<>>]

\* a leaf directly under the base path that is wrapped in the bridge in any case
TopLeafElementAlwaysBridge(Component, LoadingComponent, isDataFunctionComponentSet, dataFunctionImportModule) ==
  [errorFallback |-> Null, suspenseFallback |-> LoadingComponent, Layout |-> Null,
   bridge |-> TRUE, Component |-> Component, LoadingComponent |-> LoadingComponent,
   dataFunctionImportModule |-> dataFunctionImportModule]

\* lines 158-170 and 175-187: the element of a leaf directly under the base path
TopLeafElement(Component, LoadingComponent, isDataFunctionComponentSet, dataFunctionImportModule) ==
  [errorFallback |-> Null, suspenseFallback |-> LoadingComponent, Layout |-> Null,
   bridge |-> isDataFunctionComponentSet, Component |-> Component,
   LoadingComponent |-> IF isDataFunctionComponentSet THEN LoadingComponent ELSE Null,
   dataFunctionImportModule |->
     IF isDataFunctionComponentSet THEN dataFunctionImportModule ELSE Null]

\* lines 198-202 and 207-211: the element of a leaf inside a directory
NestedLeafElement(CurrentComponent, LoadingComponent, isDataFunctionComponentSet, dataFunctionImportModule) ==
  [errorFallback |-> Null, suspenseFallback |-> LoadingComponent, Layout |-> Null,
   bridge |-> FALSE, Component |-> CurrentComponent, LoadingComponent |-> Null,
   dataFunctionImportModule |-> Null]

\* a directory node that falls back to the layout and error files of the parent
\* directory when its own directory has none
LayoutElementInherited(carriedPath, LoadingComponent) ==
  LET parent == Slash \o Join(SliceButLast(Split(SubSeq(carriedPath, 2, Len(carriedPath)))))
      own == BASE_PAGES_PATH \o carriedPath
      up == BASE_PAGES_PATH \o (IF parent = Slash THEN <<>> ELSE parent)
      layoutKey == IF Has(files.layouts, own \o Slash \o S_layout \o DotTsx)
                   THEN own \o Slash \o S_layout \o DotTsx
                   ELSE up \o Slash \o S_layout \o DotTsx
      errorKey == IF Has(files.error, own \o Slash \o S_error \o DotTsx)
                  THEN own \o Slash \o S_error \o DotTsx
                  ELSE up \o Slash \o S_error \o DotTsx
      hasError == Has(files.error, errorKey)
  IN [errorFallback |-> IF hasError THEN Lazy(errorKey) ELSE Null,
      suspenseFallback |-> LoadingComponent,
      Layout |-> IF Has(files.layouts, layoutKey) THEN Lazy(layoutKey) ELSE GenericLayout,
      bridge |-> FALSE, Component |-> Null, LoadingComponent |-> Null,
      dataFunctionImportModule |-> Null]

\* lines 227-254: the element of a directory node
LayoutElement(carriedPath, LoadingComponent) ==
  LET layoutKey == BASE_PAGES_PATH \o carriedPath \o Slash \o S_layout \o DotTsx
      errorKey == BASE_PAGES_PATH \o carriedPath \o Slash \o S_error \o DotTsx
      Layout == IF Has(files.layouts, layoutKey) THEN Lazy(layoutKey) ELSE GenericLayout
      hasError == Has(files.error, errorKey)
      ErrorBoundaryComponent ==
        IF hasError THEN Lazy(errorKey) ELSE GenericErrorBoundaryPlaceholder
  IN [errorFallback |-> IF hasError THEN ErrorBoundaryComponent ELSE Null,
      suspenseFallback |-> LoadingComponent, Layout |-> Layout, bridge |-> FALSE,
      Component |-> Null, LoadingComponent |-> Null, dataFunctionImportModule |-> Null]

-----------------------------------------------------------------------------
(* The heap operations the builder performs *)

\* a children array is referred to by the object that owns it; 0 is undefined

\* list?.push(obj) where obj is the object n
PushFront(h, list, n) ==
  IF list = 0 THEN h ELSE [h EXCEPT ![list].children = <<n>> \o @]

Push(h, list, n) ==
  IF list = 0 THEN h ELSE [h EXCEPT ![list].children = Append(@, n)]

\* a lookup that takes any directory node named after the last segment of
\* carriedPath, wherever it is
FindChildAnywhere(h, list, carriedPath) ==
  LET hits == {n \in 2..Len(h) : h[n].children # NoChildren
                                  /\ h[n].path = Last(Split(carriedPath))}
  IN IF list = 0 \/ hits = {} THEN 0
     ELSE CHOOSE n \in hits : \A m \in hits : n <= m

\* list?.some(child => child.path === carriedPath) followed by
\* list?.find(child => child.path === carriedPath): the first match, 0 without one
FindChild(h, list, carriedPath) ==
  IF list = 0 THEN 0
  ELSE LET c == h[list].children
           hits == {i \in 1..Len(c) : h[c[i]].path = carriedPath}
       IN IF hits = {} THEN 0
          ELSE c[CHOOSE i \in hits : \A j \in hits : i <= j]

\* lastChildren?.children as a reference
ChildrenOf(h, n) == IF h[n].children = NoChildren THEN 0 ELSE n

-----------------------------------------------------------------------------
(* One iteration of the for-loop of routes(), lines 127-263 *)

\* lines 191-261: the loop over splittedRoute from segment i on
RECURSIVE WalkSegments(_, _, _, _, _, _)
WalkSegments(h, currentChildren, carriedPath, splittedRoute, i, e) ==
  IF i > Len(splittedRoute) THEN h
  ELSE
    LET routeOrFile == splittedRoute[i]
        fresh == Len(h) + 1
    IN IF EndsWith(routeOrFile, DotTsx)
       THEN LET leaf ==
                  IF routeOrFile = S_index \o DotTsx
                  THEN [path |-> Undefined, index |-> TRUE,
                        element |-> NestedLeafElement(e.Component, e.LoadingComponent,
                                      e.isDataFunctionComponentSet,
                                      e.dataFunctionImportModule),
                        children |-> NoChildren]
                  ELSE [path |-> Last(Split(e.currentRoute)), index |-> FALSE,
                        element |-> NestedLeafElement(e.Component, e.LoadingComponent,
                                      e.isDataFunctionComponentSet,
                                      e.dataFunctionImportModule),
                        children |-> NoChildren]
            IN WalkSegments(Push(Append(h, leaf), currentChildren, fresh),
                            currentChildren, carriedPath, splittedRoute, i + 1, e)
       ELSE LET carried == carriedPath \o Slash \o routeOrFile
                lastChildren == FindChild(h, currentChildren, carried)
                isLayoutCreated == lastChildren # 0
                children == [path |-> pathToRoute(routeOrFile), index |-> FALSE,
                             element |-> LayoutElement(carried, e.LoadingComponent),
                             children |-> <<>>]
            IN IF isLayoutCreated
               THEN WalkSegments(h, ChildrenOf(h, lastChildren), carried,
                                 splittedRoute, i + 1, e)
               ELSE WalkSegments(Push(Append(h, children), currentChildren, fresh),
                                 fresh, carried, splittedRoute, i + 1, e)

\* lines 128-262: the heap after the iteration for pageFile
ProcessPage(h, pageFile) ==
  LET currentRoute == pathToRoute(pageFile)
      Component == Lazy(pageFile)
      splittedRoute == Split(ReplaceFirst(pageFile, BASE_PAGES_PATH \o Slash, <<>>))
      routeWithoutFile == Join(SliceButLast(splittedRoute))
      dir == BASE_PAGES_PATH
               \o (IF routeWithoutFile # <<>> THEN Slash \o routeWithoutFile
                   ELSE routeWithoutFile)
      loadingFilePath == dir \o Slash \o S_loading \o DotTsx
      dataFunctionFilePath == dir \o Slash \o S_data \o DotTs
      isLoadingComponentCreated == Has(files.loading, loadingFilePath)
      isDataFunctionComponentSet == Has(files.data, dataFunctionFilePath)
      LoadingComponent ==
        IF isLoadingComponentCreated THEN Lazy(loadingFilePath) ELSE GenericLoading
      dataFunctionImportModule ==
        IF isDataFunctionComponentSet THEN dataFunctionFilePath ELSE Null
      currentChildren == 1
      fresh == Len(h) + 1
      e == [currentRoute |-> currentRoute, Component |-> Component,
            LoadingComponent |-> LoadingComponent,
            isDataFunctionComponentSet |-> isDataFunctionComponentSet,
            dataFunctionImportModule |-> dataFunctionImportModule]
  IN IF Len(splittedRoute) = 1
     THEN IF splittedRoute[1] = S_index \o DotTsx
          THEN Push(Append(h, [path |-> Undefined, index |-> TRUE,
                               element |-> TopLeafElement(Component, LoadingComponent,
                                             isDataFunctionComponentSet,
                                             dataFunctionImportModule),
                               children |-> NoChildren]),
                    currentChildren, fresh)
          ELSE Push(Append(h, [path |-> currentRoute, index |-> FALSE,
                               element |-> TopLeafElement(Component, LoadingComponent,
                                             isDataFunctionComponentSet,
                                             dataFunctionImportModule),
                               children |-> NoChildren]),
                    currentChildren, fresh)
     ELSE WalkSegments(h, currentChildren, <<>>, splittedRoute, 1, e)

-----------------------------------------------------------------------------
(* The builder as a state machine *)

InRange(s) == {s[i] : i \in 1..Len(s)}

Init ==
  /\ files \in Snapshots
  /\ processed = <<>>
  /\ heap = <<RootRoute>>
  /\ createdBy = <<0>>
  /\ pc = "building"
  /\ filePath = Null
  /\ route = Pending
  /\ inst = <<>>
  /\ runs = <<>>
  /\ code = "idle"
  /\ dataModule = "pending"

\* the for-loop takes the next key of _pages
ProcessEntry ==
  /\ pc = "building"
  /\ Len(processed) < MaxEntries
  /\ \E pageFile \in PageFiles \ InRange(processed) :
       /\ processed' = Append(processed, pageFile)
       /\ heap' = ProcessPage(heap, pageFile)
       /\ createdBy' = createdBy \o
            [n \in 1..(Len(heap') - Len(heap)) |-> Len(processed')]
  /\ UNCHANGED <<files, pc, filePath, route, leafVars>>

\* line 265, and line 268 which hands the tree to createBrowserRouter
Return ==
  /\ pc = "building"
  /\ pc' = "built"
  /\ UNCHANGED <<files, processed, heap, createdBy, filePath, route, leafVars>>

Next == ProcessEntry \/ Return

Spec == Init /\ [][Next]_vars

-----------------------------------------------------------------------------
(* pathToRoute on its own: the argument is drawn from the paths the glob   *)
(* of line 72 can match, the call is one step                              *)

PlainNames == {S_a, S_b, S_id, S_index, S_blog}
SegNames == PlainNames \cup {Bracket(S_id), Bracket(S_slug)}
FileNames == {S_page, S_index, S_about, Bracket(S_slug)}

DirSeqs == UNION {[1..n -> SegNames] : n \in 0..MaxDepth}

PathInputs == {FileAt(d, f, DotTsx) : d \in DirSeqs, f \in FileNames}

NoFiles == [layouts |-> {}, loading |-> {}, error |-> {}, data |-> {}]

InitPath ==
  /\ files = NoFiles
  /\ processed = <<>>
  /\ heap = <<RootRoute>>
  /\ createdBy = <<0>>
  /\ pc = "building"
  /\ filePath \in PathInputs
  /\ route = Pending
  /\ inst = <<>>
  /\ runs = <<>>
  /\ code = "idle"
  /\ dataModule = "pending"

CallPathToRoute ==
  /\ filePath # Null
  /\ route = Pending
  /\ route' = pathToRoute(filePath)
  /\ UNCHANGED <<buildVars, filePath, leafVars>>

SpecPath == InitPath /\ [][CallPathToRoute]_vars

-----------------------------------------------------------------------------
(* Reading the tree *)

IsLeaf(n) == heap[n].children = NoChildren
IsDirectory(n) == heap[n].children # NoChildren

Kids(n) == IF IsLeaf(n) THEN {} ELSE InRange(heap[n].children)

\* the objects reachable from the set S through children arrays
RECURSIVE Below(_)
Below(S) ==
  LET next == UNION {Kids(n) : n \in S}
  IN IF next = {} THEN S ELSE S \cup Below(next)

\* the route objects of the tree routes() returns
Tree == Below({1})

Leaves == {n \in Tree : IsLeaf(n)}

\* the directory segments of a page file and the directory that holds it
DirSegments(pageFile) ==
  SliceButLast(Split(SubSeq(pageFile, Len(BASE_PAGES_PATH) + 2, Len(pageFile))))

\* the directory nodes reached from the root by one node per segment of dirs
RECURSIVE NodesAt(_, _)
NodesAt(dirs, k) ==
  IF k = 0 THEN {1}
  ELSE {c \in UNION {Kids(n) : n \in NodesAt(dirs, k - 1)} :
          IsDirectory(c) /\ heap[c].path = ReplaceBrackets(dirs[k])}

LeavesOf(pageFile) == {n \in Leaves : heap[n].element.Component = Lazy(pageFile)}

DataFileOf(pageFile) ==
  LET d == DirSegments(pageFile)
  IN IF d = <<>> THEN FileAt(<<>>, S_data, DotTs) ELSE FileAt(d, S_data, DotTs)

Done == InRange(processed)

-----------------------------------------------------------------------------
(* JavaScript values: the results and rejection reasons of a data function *)

JSNull == [t |-> "null", v |-> "null"]
JSUndefined == [t |-> "undefined", v |-> "undefined"]
JSZero == [t |-> "number", v |-> "0"]
JSFalse == [t |-> "boolean", v |-> "false"]
JSEmpty == [t |-> "string", v |-> ""]
JSObject == [t |-> "object", v |-> "{ id: 1 }"]
JSError(message) == [t |-> "Error", v |-> message]
JSString(chars) == [t |-> "string", v |-> chars]

\* the truthiness test of if (x)
ToBoolean(x) ==
  CASE x.t \in {"null", "undefined"} -> FALSE
    [] x.t = "number" -> x.v \notin {"0", "NaN"}
    [] x.t = "boolean" -> x.v = "true"
    [] x.t = "string" -> x.v # ""
    [] OTHER -> TRUE

\* x.message
Message(x) == IF x.t = "Error" THEN JSString(x.v) ELSE JSUndefined

ResolveValues == {JSNull, JSZero, JSFalse, JSEmpty, JSObject}
RejectValues == {JSError("boom"), JSNull}
ImportError == JSError("Failed to fetch dynamically imported module")

Outcomes ==
  {[how |-> "resolved", v |-> x] : x \in ResolveValues}
    \cup {[how |-> "rejected", v |-> x] : x \in RejectValues}

NotSettled == [how |-> "pending", v |-> JSUndefined]

-----------------------------------------------------------------------------
(* DataLoaderComponent, lines 24-68, and the leaf element around it *)

\* lines 33-35: the hook state of a fresh mount.  The other fields are history:
\*   renders     re-renders of this mount
\*   seen        what the leaf element has put on the screen during this mount
\*   calls       invocations of the data function by the effects of this mount
\*   settled     how the last loadData of this mount ended
\*   lateUpdate  whether a state setter was called after the unmount
\*   changes     how often the parent has passed a new dataFunctionImportModule
\* and dep is the dataFunctionImportModule of the last render, which the effect of
\* line 55 compares with the next one
NewInstance(n) ==
  [node |-> n, alive |-> TRUE, data |-> JSNull, loading |-> TRUE, error |-> JSNull,
   dep |-> heap[n].element.dataFunctionImportModule,
   renders |-> 0, seen |-> {}, calls |-> 0, settled |-> NotSettled,
   lateUpdate |-> FALSE, changes |-> 0]

\* an unmount discards the hook state
Discard(r) ==
  [r EXCEPT !.alive = FALSE, !.data = JSNull, !.loading = TRUE, !.error = JSNull,
            !.dep = heap[r.node].element.dataFunctionImportModule,
            !.renders = 0, !.seen = {}, !.settled = NotSettled, !.changes = 0]

\* lines 57-67 without the test of error
DataLoaderRenderNoErrorTest(r) ==
  IF r.loading THEN [kind |-> "LoadingComponent", arg |-> JSUndefined]
  ELSE IF ToBoolean(r.data) THEN [kind |-> "Component", arg |-> r.data]
  ELSE [kind |-> "null", arg |-> JSUndefined]

\* lines 57-67: what the bridge returns
DataLoaderRender(r) ==
  IF r.loading THEN [kind |-> "LoadingComponent", arg |-> JSUndefined]
  ELSE IF ToBoolean(r.error) THEN [kind |-> "notice", arg |-> Message(r.error)]
  ELSE IF ToBoolean(r.data) THEN [kind |-> "Component", arg |-> r.data]
  ELSE [kind |-> "null", arg |-> JSUndefined]

\* <React.Suspense fallback={<LoadingComponent />}> around the lazy page component
\* whose code is in state c, rendered with initialData = arg
LazyRender(c, arg) ==
  IF c = "ready" THEN [kind |-> "page", arg |-> arg]
  ELSE IF c = "failed" THEN [kind |-> "thrown", arg |-> ImportError]
  ELSE [kind |-> "fallback", arg |-> JSUndefined]

\* lines 159-169: what the leaf element of the instance r shows
Screen(r, c) ==
  IF heap[r.node].element.bridge
  THEN LET out == DataLoaderRender(r)
       IN IF out.kind = "Component" THEN LazyRender(c, out.arg) ELSE out
  ELSE LazyRender(c, JSUndefined)

\* React.lazy starts the import when the component is first rendered
RendersPage(r) ==
  r.alive /\ (heap[r.node].element.bridge => DataLoaderRender(r).kind = "Component")

StartCode(is, c) ==
  IF c = "idle" /\ \E i \in 1..Len(is) : RendersPage(is[i]) THEN "pending" ELSE c

\* history: every mounted instance has shown its current screen
Observe(is, c) ==
  [i \in 1..Len(is) |->
     IF is[i].alive THEN [is[i] EXCEPT !.seen = @ \cup {Screen(is[i], c)}] ELSE is[i]]

\* an effect without a dependency array runs after every render
EffectDepsAlways(prev, next) == TRUE

\* line 55: the effect runs again when its dependency changed identity
EffectDepsChanged(prev, next) == prev # next

\* lines 38-41 and 49-51: loadData up to its first await
StartLoadData(r) ==
  LET r1 == [r EXCEPT !.loading = TRUE]
  IN IF r.dep # Null
     THEN [rec |-> r1, pc |-> "awaitModule"]
     ELSE [rec |-> [r1 EXCEPT !.loading = FALSE], pc |-> "done"]

\* how a loadData that had nothing to await ended
Skipped == [how |-> "skipped", v |-> JSUndefined]

\* one call of loadData by the instance i: where it stands, the promise it awaits on
\* line 42, and, as history, how it ended
NewRun(i, r, st) ==
  [of |-> i, pc |-> st.pc, ref |-> r.dep,
   out |-> IF st.pc = "done" THEN Skipped ELSE NotSettled]

\* a promise the parent creates for a later render; nothing else awaits it
FreshRef(k) == <<"promise">> \o [j \in 1..k |-> "'"]

IsFreshRef(ref) == ref # Null /\ ref[1] = "promise"

\* lines 45 and 50, or 48 and 50: the state setters after the data function settled
\* with outcome o, and the screen between the two setters
SettleData(r, o, c) ==
  IF ~r.alive THEN [r EXCEPT !.lateUpdate = TRUE]
  ELSE LET r1 == IF o.how = "resolved" THEN [r EXCEPT !.data = o.v]
                 ELSE [r EXCEPT !.error = o.v]
       IN [r1 EXCEPT !.loading = FALSE, !.settled = o,
                     !.seen = @ \cup {Screen(r1, c)}]

-----------------------------------------------------------------------------
(* One leaf element, mounted by the router *)

LeafSnapshots == {s \in Snapshots : s.layouts = {} /\ s.error = {}}

InitLeaf ==
  /\ files \in LeafSnapshots
  /\ \E pageFile \in PageFiles :
       /\ processed = <<pageFile>>
       /\ heap = ProcessPage(<<RootRoute>>, pageFile)
  /\ createdBy = [n \in 1..Len(heap) |-> IF n = 1 THEN 0 ELSE 1]
  /\ pc = "built"
  /\ filePath = Null
  /\ route = Pending
  /\ inst = <<>>
  /\ runs = <<>>
  /\ code = "idle"
  /\ dataModule = "pending"

\* the router matches the leaf n and renders its element; the effect of a bridge
\* runs after the first commit
Mount ==
  /\ pc = "built"
  /\ Len(inst) < MaxMounts
  /\ \A i \in 1..Len(inst) : ~inst[i].alive
  /\ \E n \in Leaves :
       LET r0 == NewInstance(n)
           st == StartLoadData(r0)
           bridge == heap[n].element.bridge
           is == Append(inst, IF bridge THEN st.rec ELSE r0)
           c == StartCode(is, code)
       IN /\ inst' = Observe([is EXCEPT ![Len(is)].seen = {Screen(r0, c)}], c)
          /\ runs' = IF bridge THEN Append(runs, NewRun(Len(is), r0, st)) ELSE runs
          /\ code' = c
  /\ UNCHANGED <<buildVars, filePath, route, dataModule>>

\* the import of the data module, started on line 149, settles
ModuleSettles ==
  /\ pc = "built"
  /\ dataModule = "pending"
  /\ \E n \in Leaves : heap[n].element.dataFunctionImportModule # Null
  /\ \E o \in {"resolved", "rejected"} : dataModule' = o
  /\ UNCHANGED <<buildVars, filePath, route, inst, runs, code>>

\* lines 42-44, or 42 and 47-51: loadData resumes after await dataFunctionImportModule
AfterModule ==
  \E k \in 1..Len(runs), how \in {"resolved", "rejected"} :
    /\ runs[k].pc = "awaitModule"
    /\ IsFreshRef(runs[k].ref) \/ how = dataModule
    /\ LET i == runs[k].of
           r == inst[i]
           failed == [how |-> "rejected", v |-> ImportError]
           is == IF how = "resolved"
                 THEN [inst EXCEPT ![i].calls = @ + 1]
                 ELSE [inst EXCEPT ![i] = SettleData(r, failed, code)]
           c == StartCode(is, code)
       IN /\ inst' = Observe(is, c)
          /\ code' = c
          /\ runs' = IF how = "resolved" THEN [runs EXCEPT ![k].pc = "awaitData"]
                     ELSE [runs EXCEPT ![k].pc = "done", ![k].out = failed]
    /\ UNCHANGED <<buildVars, filePath, route, dataModule>>

\* lines 44-51: the promise of the data function settles and loadData finishes
DataSettles ==
  \E k \in 1..Len(runs) :
    /\ runs[k].pc = "awaitData"
    /\ \E o \in Outcomes :
         LET i == runs[k].of
             is == [inst EXCEPT ![i] = SettleData(inst[i], o, code)]
             c == StartCode(is, code)
         IN /\ inst' = Observe(is, c)
            /\ code' = c
            /\ runs' = [runs EXCEPT ![k].pc = "done", ![k].out = o]
    /\ UNCHANGED <<buildVars, filePath, route, dataModule>>

\* the instance renders again with the props of the render before; line 55
\* decides whether the effect runs again
Rerender ==
  \E i \in 1..Len(inst) :
    /\ inst[i].alive
    /\ inst[i].renders < MaxRenders
    /\ LET el == heap[inst[i].node].element
           r == [inst[i] EXCEPT !.renders = @ + 1]
           again == el.bridge /\ EffectDepsChanged(inst[i].dep, r.dep)
           st == StartLoadData(r)
           is == [inst EXCEPT ![i] = IF again THEN st.rec ELSE r]
           c == StartCode(is, code)
       IN /\ inst' = Observe(is, c)
          /\ code' = c
          /\ runs' = IF again THEN Append(runs, NewRun(i, r, st)) ELSE runs
    /\ UNCHANGED <<buildVars, filePath, route, dataModule>>

\* the router leaves the route: the instance is discarded, its loadData goes on
Unmount ==
  \E i \in 1..Len(inst) :
    /\ inst[i].alive
    /\ inst' = [inst EXCEPT ![i] = Discard(@)]
    /\ UNCHANGED <<buildVars, filePath, route, runs, code, dataModule>>

\* the import behind React.lazy (line 133 or 194) settles
CodeSettles ==
  /\ code = "pending"
  /\ \E c \in {"ready", "failed"} :
       /\ code' = c
       /\ inst' = Observe(inst, c)
  /\ UNCHANGED <<buildVars, filePath, route, runs, dataModule>>

NextLeaf ==
  \/ Mount
  \/ ModuleSettles
  \/ AfterModule
  \/ DataSettles
  \/ Rerender
  \/ Unmount
  \/ CodeSettles

SpecLeaf == InitLeaf /\ [][NextLeaf]_vars

-----------------------------------------------------------------------------
(* One mounted DataLoaderComponent under every value of the props that     *)
(* line 31 admits, with a parent that may pass a new                       *)
(* dataFunctionImportModule                                                *)

\* lines 161-165 with the props as given
BridgeElement(Component, LoadingComponent, dataFunctionImportModule) ==
  [errorFallback |-> Null, suspenseFallback |-> LoadingComponent, Layout |-> Null,
   bridge |-> TRUE, Component |-> Component, LoadingComponent |-> LoadingComponent,
   dataFunctionImportModule |-> dataFunctionImportModule]

InitBridge ==
  /\ files \in {s \in LeafSnapshots : s.loading = {} /\ s.data \subseteq {DataFileOf(P_about)}}
  /\ processed = <<P_about>>
  /\ LET key == DataFileOf(P_about)
         ref == IF Has(files.data, key) THEN Lazy(key) ELSE Null
     IN heap = <<[RootRoute EXCEPT !.children = <<2>>],
                 [path |-> pathToRoute(P_about), index |-> FALSE,
                  element |-> BridgeElement(Lazy(P_about), GenericLoading, ref),
                  children |-> NoChildren]>>
  /\ createdBy = <<0, 1>>
  /\ pc = "built"
  /\ filePath = Null
  /\ route = Pending
  /\ inst = <<>>
  /\ runs = <<>>
  /\ code = "idle"
  /\ dataModule = "pending"

\* the parent renders the instance with a new promise as dataFunctionImportModule;
\* line 55 makes the effect run again
ChangeRef ==
  \E i \in 1..Len(inst) :
    /\ inst[i].alive
    /\ inst[i].changes < MaxRefChanges
    /\ LET r == [inst[i] EXCEPT !.dep = FreshRef(inst[i].changes + 1),
                                !.changes = @ + 1]
           again == EffectDepsChanged(inst[i].dep, r.dep)
           st == StartLoadData(r)
           is == [inst EXCEPT ![i] = IF again THEN st.rec ELSE r]
           c == StartCode(is, code)
       IN /\ inst' = Observe(is, c)
          /\ code' = c
          /\ runs' = IF again THEN Append(runs, NewRun(i, r, st)) ELSE runs
    /\ UNCHANGED <<buildVars, filePath, route, dataModule>>

NextBridge ==
  \/ Mount
  \/ ModuleSettles
  \/ AfterModule
  \/ DataSettles
  \/ Rerender
  \/ CodeSettles
  \/ ChangeRef

SpecBridge == InitBridge /\ [][NextBridge]_vars

-----------------------------------------------------------------------------
(* C1: every directory prefix of the processed entries has exactly one     *)
(* directory node, the leaves of the entries under it hang below that      *)
(* node, and no children list holds two directory nodes of the same path.  *)
C1_OneNodePerDirectory ==
  /\ \A e1, e2 \in Done : \A k \in 1..Len(DirSegments(e1)) :
       (e1 # e2 /\ k <= Len(DirSegments(e2))
          /\ SubSeq(DirSegments(e1), 1, k) = SubSeq(DirSegments(e2), 1, k)) =>
         \E d \in Tree :
           /\ NodesAt(DirSegments(e1), k) = {d}
           /\ LeavesOf(e1) \cap Below({d}) # {}
           /\ LeavesOf(e2) \cap Below({d}) # {}
  /\ \A n \in Tree : \A a, b \in Kids(n) :
       (a # b /\ IsDirectory(a) /\ IsDirectory(b)) => heap[a].path # heap[b].path

(* C2: the entries index.tsx, about.tsx, blog/index.tsx, blog/[slug].tsx,  *)
(* in that order and without collaborator files, give a root with three    *)
(* children: the index, the path node about, and one path node blog that   *)
(* holds the index of blog and the path node :slug.                        *)
C2_ScenarioTree ==
  (files = NoFiles /\ processed = <<P_index, P_about, P_blogIndex, P_blogSlug>>) =>
    LET r == heap[1].children
    IN /\ heap[1].path = Slash
       /\ Len(r) = 3
       /\ heap[r[1]].index /\ heap[r[1]].element.Component = Lazy(P_index)
       /\ heap[r[2]].path = S_about /\ heap[r[2]].element.Component = Lazy(P_about)
       /\ heap[r[3]].path = S_blog /\ IsDirectory(r[3])
       /\ LET b == heap[r[3]].children
          IN /\ Len(b) = 2
             /\ heap[b[1]].index /\ heap[b[1]].element.Component = Lazy(P_blogIndex)
             /\ heap[b[2]].path = <<":">> \o S_slug
             /\ heap[b[2]].element.Component = Lazy(P_blogSlug)

IsPrefix(s, t) == Len(s) <= Len(t) /\ SubSeq(t, 1, Len(s)) = s

ChildrenInCreationOrder ==
  \A n \in 1..Len(heap) : IsDirectory(n) =>
    \A i, j \in 1..Len(heap[n].children) :
      i < j => createdBy[heap[n].children[i]] < createdBy[heap[n].children[j]]

(* C3: a step of the builder only appends to children lists (every list   *)
(* of before the step is a prefix of itself after it), and in every list  *)
(* the nodes stand in the order of the entries that created them.         *)
C3_AppendOnly ==
  [][/\ \A n \in 1..Len(heap) : IsDirectory(n) =>
          IsPrefix(heap[n].children, heap'[n].children)
     /\ ChildrenInCreationOrder']_vars

C3_Witness ==
  /\ Len(heap[1].children) >= 3
  /\ \E n \in Kids(1) : IsDirectory(n) /\ Len(heap[n].children) >= 1
  /\ \E i \in 1..Len(heap[1].children) :
       IsDirectory(heap[1].children[i]) /\ i < Len(heap[1].children)

(* C4: each processed entry has exactly one leaf in the tree, the tree    *)
(* has as many leaves as entries were processed, and the leaf of an entry *)
(* is in the children list reached by one directory node per directory    *)
(* segment of its path, whatever was processed before it.                  *)
C4_OneLeafPerEntry ==
  /\ Cardinality(Leaves) = Len(processed)
  /\ \A e \in Done :
       /\ Cardinality(LeavesOf(e)) = 1
       /\ \E n \in LeavesOf(e) :
            \E d \in NodesAt(DirSegments(e), Len(DirSegments(e))) : n \in Kids(d)

-----------------------------------------------------------------------------
(* pathToRoute *)

Route2(a, b) == Slash \o a \o Slash \o b

(* C5 as stated: base/a/b/page.tsx gives /a/b, base/a/index.tsx gives /a,  *)
(* base/[id]/page.tsx gives /:id and base/index.tsx gives /.               *)
C5_AsStated ==
  route # Pending =>
    \A a, b \in PlainNames :
      /\ filePath = FileAt(<<a, b>>, S_page, DotTsx) => route = Route2(a, b)
      /\ filePath = FileAt(<<a>>, S_index, DotTsx) => route = Slash \o a
      /\ filePath = FileAt(<<Bracket(a)>>, S_page, DotTsx) => route = Slash \o <<":">> \o a
      /\ filePath = FileAt(<<>>, S_index, DotTsx) => route = Slash

(* C5 amended: only a trailing index is dropped, the file name page is a   *)
(* segment like any other: base/a/b/page.tsx gives /a/b/page,              *)
(* base/a/index.tsx gives /a, base/[id]/page.tsx gives /:id/page and       *)
(* base/index.tsx gives /, for segment names without brackets.             *)
C5_PathToRoute ==
  route # Pending =>
    \A a, b \in PlainNames :
      /\ filePath = FileAt(<<a, b>>, S_page, DotTsx) =>
           route = Route2(a, b) \o Slash \o S_page
      /\ filePath = FileAt(<<a>>, S_index, DotTsx) => route = Slash \o a
      /\ filePath = FileAt(<<Bracket(a)>>, S_page, DotTsx) =>
           route = Slash \o <<":">> \o a \o Slash \o S_page
      /\ filePath = FileAt(<<>>, S_index, DotTsx) => route = Slash

C5_Witness ==
  /\ filePath = FileAt(<<Bracket(S_id)>>, S_page, DotTsx)
  /\ route = <<"/", ":", "i", "d", "/", "p", "a", "g", "e">>

-----------------------------------------------------------------------------
(* The mounted leaf *)

ElementOf(r) == heap[r.node].element
PageOf(r) == ElementOf(r).Component
HasOwnData(r) == Has(files.data, DataFileOf(PageOf(r)))
RunsOf(i) == {k \in 1..Len(runs) : runs[k].of = i}
Mounted == {i \in 1..Len(inst) : inst[i].alive}

(* C6: a mounted leaf whose own directory holds a data.ts is the bridge    *)
(* DataLoaderComponent around its page component with the data module of   *)
(* that directory; it has shown the loading indicator, and once the data   *)
(* function has resolved to a value the bridge renders the page component  *)
(* with that value as initialData.                                         *)
C6_DataLeafLoadsThenRenders ==
  \A i \in Mounted : HasOwnData(inst[i]) =>
    /\ ElementOf(inst[i]).bridge
    /\ ElementOf(inst[i]).dataFunctionImportModule = DataFileOf(PageOf(inst[i]))
    /\ \E o \in inst[i].seen : o.kind = "LoadingComponent"
    /\ inst[i].settled.how = "resolved" =>
         DataLoaderRender(inst[i]) = [kind |-> "Component", arg |-> inst[i].settled.v]

(* C7: once the data function of a mounted bridge has resolved to V, any   *)
(* V, the bridge renders the page component with initialData = V.          *)
C7_ResolvedValueIsRendered ==
  \A i \in Mounted :
    (ElementOf(inst[i]).bridge /\ inst[i].settled.how = "resolved") =>
      DataLoaderRender(inst[i]) = [kind |-> "Component", arg |-> inst[i].settled.v]

RejectedWithError(r) == r.settled.how = "rejected" /\ r.settled.v.t = "Error"

C8_Notice ==
  \A i \in Mounted : RejectedWithError(inst[i]) =>
    /\ Screen(inst[i], code) = [kind |-> "notice", arg |-> JSString(inst[i].settled.v.v)]
    /\ \A o \in inst[i].seen : o.kind \in {"LoadingComponent", "notice"}

C8_Local ==
  \A i \in 1..Len(inst) :
    (i <= Len(inst') /\ ~RejectedWithError(inst[i]) /\ RejectedWithError(inst'[i])) =>
      /\ Len(inst') = Len(inst)
      /\ \A j \in 1..Len(inst) : j # i => inst'[j] = inst[j]

(* C8: a mounted bridge whose data module or data function rejected with   *)
(* an Error shows the notice with the message of that error, has shown     *)
(* nothing but the loading indicator and the notice during the mount (not  *)
(* the page component, and nothing thrown to a boundary), and the step     *)
(* that records the rejection changes no other instance.                   *)
C8_RejectionIsLocalNotice == [](C8_Notice) /\ [][C8_Local]_vars

C8_Witness ==
  \E i \in Mounted :
    /\ inst[i].settled = [how |-> "rejected", v |-> JSError("boom")]
    /\ Screen(inst[i], code) = [kind |-> "notice", arg |-> JSString("boom")]
    /\ i > 1

(* C9: a mounted leaf whose own directory holds no data.ts is not a bridge *)
(* and runs no loadData: it has only shown the suspense fallback, the page *)
(* component or the failure of the code fetch, and with the code ready it  *)
(* shows the page component, rendered without initialData.                 *)
C9_NoDataNoBridge ==
  \A i \in Mounted : ~HasOwnData(inst[i]) =>
    /\ ~ElementOf(inst[i]).bridge
    /\ RunsOf(i) = {}
    /\ \A o \in inst[i].seen : o.kind \in {"fallback", "page", "thrown"}
    /\ code = "ready" => Screen(inst[i], code) = [kind |-> "page", arg |-> JSUndefined]

C9_Witness ==
  \E i \in Mounted :
    /\ ~HasOwnData(inst[i])
    /\ code = "ready"
    /\ inst[i].seen = {[kind |-> "fallback", arg |-> JSUndefined],
                       [kind |-> "page", arg |-> JSUndefined]}

(* C10: every mount of a bridge runs loadData once, whatever it re-renders *)
(* and however the load ends, so the data function is invoked at most once *)
(* per mount and exactly once as soon as the data module has resolved; a   *)
(* later mount has its own single run.                                      *)
C10_OneInvocationPerMount ==
  \A i \in 1..Len(inst) :
    /\ Cardinality(RunsOf(i)) = IF ElementOf(inst[i]).bridge THEN 1 ELSE 0
    /\ inst[i].calls <= 1
    /\ \A k \in RunsOf(i) :
         inst[i].calls = IF runs[k].pc = "awaitModule" \/ dataModule # "resolved"
                         THEN 0 ELSE 1

C10_Witness ==
  /\ Len(inst) = 2
  /\ ~inst[1].alive /\ inst[1].calls = 1
  /\ inst[2].alive /\ inst[2].calls = 1 /\ inst[2].renders >= 1
  /\ inst[2].settled.how = "rejected"
  /\ \A k \in 1..Len(runs) : runs[k].pc = "done"

-----------------------------------------------------------------------------
(* The collaborators of a directory, looked up by the directory alone *)

\* the directory of every page file, and every directory above one
PageDirs == [p \in PageFiles |-> DirSegments(p)]

AllDirs ==
  UNION {{SubSeq(PageDirs[p], 1, k) : k \in 1..Len(PageDirs[p])} : p \in PageFiles}

\* the keys under which the globs hold the collaborator files of a directory
KeysOf ==
  [d \in AllDirs |-> [layout |-> FileAt(d, S_layout, DotTsx),
                      error |-> FileAt(d, S_error, DotTsx),
                      loading |-> FileAt(d, S_loading, DotTsx)]]

OwnLayout(dirs) ==
  IF Has(files.layouts, KeysOf[dirs].layout)
  THEN Lazy(KeysOf[dirs].layout) ELSE GenericLayout

OwnErrorFallback(dirs) ==
  IF Has(files.error, KeysOf[dirs].error)
  THEN Lazy(KeysOf[dirs].error) ELSE Null

OwnLoading(dirs) ==
  IF Has(files.loading, KeysOf[dirs].loading)
  THEN Lazy(KeysOf[dirs].loading) ELSE GenericLoading

\* the pairs of page files that lie directly in two different directories with
\* the same last segment
SameNamePairs ==
  {pr \in PageFiles \X PageFiles :
     /\ PageDirs[pr[1]] # <<>> /\ PageDirs[pr[2]] # <<>>
     /\ PageDirs[pr[1]] # PageDirs[pr[2]]
     /\ Last(PageDirs[pr[1]]) = Last(PageDirs[pr[2]])}

(* C14: every directory node of the tree renders the layout.tsx of its own *)
(* directory, the generic layout when there is none, and is inside an      *)
(* error boundary exactly when its own directory has an error.tsx, whose   *)
(* component is then the fallback; files of other directories play no part. *)
C14_OwnLayoutAndError ==
  \A d \in AllDirs : \A n \in NodesAt(d, Len(d)) :
    /\ heap[n].element.Layout = OwnLayout(d)
    /\ heap[n].element.errorFallback = OwnErrorFallback(d)

C14_Witness ==
  /\ Has(files.layouts, FileAt(<<S_blog>>, S_layout, DotTsx))
  /\ Has(files.error, FileAt(<<S_blog, S_x>>, S_error, DotTsx))
  /\ \E n \in NodesAt(<<S_blog, S_x>>, 2) :
       /\ heap[n].element.Layout = GenericLayout
       /\ heap[n].element.errorFallback = FileAt(<<S_blog, S_x>>, S_error, DotTsx)
  /\ \E m \in NodesAt(<<S_blog>>, 1) :
       /\ heap[m].element.Layout = FileAt(<<S_blog>>, S_layout, DotTsx)
       /\ heap[m].element.errorFallback = Null

(* C15: the suspense fallback of every directory node of the tree is the   *)
(* loading.tsx of its own directory, the generic loading when there is     *)
(* none, whichever entry caused the node to be created.                    *)
C15_OwnLoading ==
  \A d \in AllDirs : \A n \in NodesAt(d, Len(d)) :
    heap[n].element.suspenseFallback = OwnLoading(d)

\* the route objects, attached or not, that hold n in their children
ParentsOf(n) ==
  {m \in 1..Len(heap) : IsDirectory(m) /\ n \in InRange(heap[m].children)}

\* the leaves created for a page file, attached or not
CreatedLeavesOf(pageFile) ==
  {n \in 1..Len(heap) : IsLeaf(n) /\ heap[n].element.Component = Lazy(pageFile)}

(* C16: two processed entries that lie directly in two different           *)
(* directories with the same last segment have their leaves in the         *)
(* children of two different directory nodes, each named after that        *)
(* segment and each holding only leaves of its own directory.              *)
C16_SameNameDirectoriesApart ==
  \A pr \in SameNamePairs : (pr[1] \in Done /\ pr[2] \in Done) =>
    \A l1 \in CreatedLeavesOf(pr[1]), l2 \in CreatedLeavesOf(pr[2]) :
      /\ Cardinality(ParentsOf(l1)) = 1
      /\ ParentsOf(l1) \cap ParentsOf(l2) = {}
      /\ \A m \in ParentsOf(l1) :
           /\ m # 1
           /\ heap[m].path = ReplaceBrackets(Last(PageDirs[pr[1]]))
           /\ \A c \in Kids(m) : IsLeaf(c) =>
                \E e \in Done : PageDirs[e] = PageDirs[pr[1]]
                                 /\ heap[c].element.Component = Lazy(e)

C16_Witness ==
  /\ {P_blogXPage, P_aboutXPage} \subseteq Done
  /\ \E a \in NodesAt(<<S_about, S_x>>, 2), b \in NodesAt(<<S_blog, S_x>>, 2) :
       /\ a # b
       /\ LeavesOf(P_aboutXPage) \subseteq Kids(a) /\ LeavesOf(P_aboutXPage) # {}
       /\ LeavesOf(P_blogXPage) \subseteq Kids(b) /\ LeavesOf(P_blogXPage) # {}

\* what a step of the builder leaves alone in the objects that exist
OnlyAppends ==
  /\ Len(heap') >= Len(heap)
  /\ \A n \in 1..Len(heap) :
       /\ heap'[n].path = heap[n].path
       /\ heap'[n].index = heap[n].index
       /\ heap'[n].element = heap[n].element
       /\ IF IsLeaf(n) THEN heap'[n].children = NoChildren
          ELSE IsPrefix(heap[n].children, heap'[n].children)

(* C18: a step of the builder changes no path, index flag or element of an *)
(* existing node and only appends to children lists, and after it any two  *)
(* processed entries with the same route pattern both have their leaf in   *)
(* the tree.                                                               *)
C18_CollidingEntriesBothKept ==
  [][/\ OnlyAppends
     /\ \A e1, e2 \in Done' :
          (e1 # e2 /\ pathToRoute(e1) = pathToRoute(e2)) =>
            (LeavesOf(e1) # {} /\ LeavesOf(e2) # {})']_vars

-----------------------------------------------------------------------------
(* The render state of a mounted bridge *)

\* lines 57-67, read as the state loading, loaded or errored
Phase(r) ==
  LET out == DataLoaderRender(r)
  IN IF out.kind = "LoadingComponent" THEN "loading"
     ELSE IF out.kind = "notice" THEN "errored" ELSE "loaded"

LoadingScreen == [kind |-> "LoadingComponent", arg |-> JSUndefined]

\* a step that mounts the instance i shows the loading indicator first; any other
\* step leaves its state or takes it from loading to loaded or errored
ForwardOnly(i) ==
  IF i > Len(inst) THEN LoadingScreen \in inst'[i].seen
  ELSE (inst[i].alive /\ inst'[i].alive) =>
         (Phase(inst[i]) = "loading" \/ Phase(inst'[i]) = Phase(inst[i]))

(* C11 as stated: in every step, whatever it is (a fetch settling, a       *)
(* re-render, a new data reference), every mounted bridge starts in        *)
(* loading and afterwards keeps its state or goes from loading to loaded   *)
(* or errored.                                                             *)
C11_AsStated ==
  [][\A i \in 1..Len(inst') : ForwardOnly(i)]_vars

(* C11: every mounted bridge whose data reference has not been replaced    *)
(* starts in loading and afterwards keeps its state or goes from loading   *)
(* to loaded or errored, through fetch resolutions and re-renders.         *)
C11_ForwardWhileSameReference ==
  [][\A i \in 1..Len(inst') : inst'[i].changes = 0 => ForwardOnly(i)]_vars

C11_Witness ==
  \E i \in 1..Len(inst) :
    /\ inst[i].alive /\ inst[i].changes = 0 /\ inst[i].renders >= 1
    /\ inst[i].settled.how = "resolved"
    /\ Phase(inst[i]) = "loaded"
    /\ LoadingScreen \in inst[i].seen

(* C12: no state setter is ever called on an instance after its unmount.   *)
C12_NoUpdateAfterUnmount ==
  \A i \in 1..Len(inst) : ~inst[i].lateUpdate

(* C13: a mounted bridge that was given null as dataFunctionImportModule   *)
(* renders its Component, without data.                                    *)
C13_NullReferenceRendersComponent ==
  \A i \in 1..Len(inst) :
    (inst[i].alive /\ inst[i].dep = Null) =>
      /\ DataLoaderRender(inst[i]).kind = "Component"
      /\ ~ToBoolean(DataLoaderRender(inst[i]).arg)

(* C17: a mounted leaf whose own directory holds a data.ts shows its page  *)
(* component only when the code of the page is loaded and the data         *)
(* function has resolved, and then with the resolved value; as long as     *)
(* neither the code fetch nor the data fetch has failed and the page is    *)
(* not shown, it shows the loading indicator.                              *)
C17_PageNeedsCodeAndData ==
  \A i \in Mounted : HasOwnData(inst[i]) =>
    LET s == Screen(inst[i], code)
    IN /\ s.kind = "page" =>
            /\ code = "ready"
            /\ inst[i].settled.how = "resolved"
            /\ s.arg = inst[i].settled.v
       /\ (s.kind # "page" /\ code # "failed" /\ inst[i].settled.how # "rejected") =>
            s.kind \in {"LoadingComponent", "fallback"}

\* the last loadData the instance i started
LatestRun(i) ==
  runs[CHOOSE k \in RunsOf(i) : \A j \in RunsOf(i) : j <= k]

(* C19: once every loadData of a mounted bridge whose data reference was   *)
(* replaced has finished, the bridge renders what it would render had only *)
(* the fetch of the latest reference happened.                             *)
C19_LatestReferenceWins ==
  \A i \in 1..Len(inst) :
    (/\ inst[i].alive /\ inst[i].changes >= 1
     /\ \A k \in RunsOf(i) : runs[k].pc = "done") =>
      DataLoaderRender(inst[i]) =
        DataLoaderRender(SettleData(NewInstance(inst[i].node), LatestRun(i).out, code))

====
